---- MODULE Spec2Model ----
(***************************************************************************)
(* State machine of the Demo tab of the dashboard                          *)
(* (dashboard/src/tabs/demo/component.rs) together with its pure helpers   *)
(* (attacks.rs).  Signals are variables; every click handler, timer        *)
(* callback and async continuation is one action.  Time is kept as the     *)
(* remaining delay of each pending timer; an async browser call resolves   *)
(* either at once or MaxLatency after it was started.                      *)
(* A floating point number of milliseconds is kept as its whole part and   *)
(* its thousandths, so that the `as i32` cast is a real conversion.        *)
(***************************************************************************)
EXTENDS Integers, Sequences, FiniteSets, TLC

VARIABLES
    instance_states,       \* [0..2 -> {"Healthy","Faulty"}]
    faulty_instance,       \* None or 0..2
    leader_id,             \* 0..2
    python_workers,        \* [0..2 -> BOOLEAN]
    python_active_worker,  \* 0..2
    python_restarting,
    python_processed,
    python_crashed,
    python_downtime_ms,
    wasm_processed,
    wasm_rejected,
    python_logs,           \* sequence of LogEntry
    wasm_logs,
    is_running,
    running_all,
    selected_attack,
    sensor_running,
    pyodide_ready,
    pyodide_load_ms,       \* f64: [whole, frac, over]
    window,                \* the globals pyodideReady / pyodideLoadTime
    timers,                \* pending one-shot timers, in scheduling order
    asyncs,                \* pending async browser calls, in start order
    last,                  \* the step just taken: [op, n]
    clicks,                \* user operations so far, Reset not counted
    delay_sum,             \* history: sum of the restart delays computed since the last Reset
    attacks,               \* history: attacks accepted since the last Reset
    reset_midway,          \* history: Reset ran while a crash callback was pending
    ra_trace,              \* history: handler calls made by the current run-all
    probe,                 \* inputs and outputs of the pure functions
    fleet_size,            \* OtaSimulator: the fleet slider
    network_type           \* OtaSimulator: the network select

progvars == <<instance_states, faulty_instance, leader_id, python_workers, python_active_worker, python_restarting, python_processed, python_crashed, python_downtime_ms, wasm_processed, wasm_rejected, python_logs, wasm_logs, is_running, running_all, selected_attack, sensor_running, pyodide_ready, pyodide_load_ms>>

vars == <<progvars, window, timers, asyncs, last, clicks, delay_sum, attacks, reset_midway, ra_trace, probe, fleet_size, network_type>>

-----------------------------------------------------------------------------
(* Bounds of the model *)

\* user operations in one run: up to MaxClicks single attacks and sensor checks,
\* or one run-all on its own; Reset is not counted
MaxClicks == 2

\* an async browser call resolves at most this many ms after it was started
MaxLatency == 4000

\* leader-crash clicks in one run of SpecLeader
MaxLeaderCrashes == 3

\* resolution of Math.random(): the draws are k / RandDen, k in 0..RandDen-1
RandDen == 800

-----------------------------------------------------------------------------
(* Program constants *)

I32Max == 2147483647
MinRestart == 500
JitterSpan == 400
JitterOffset == 200
LeaderNominal == 1500
WasmTrapDelay == 100
RebuildDelay == 50
RunAllSpacing == 3500
RunAllInnerDelay == 100
RunAllFinalDelay == 20500
PollDelay == 500
InitialProcessed == 5

None == -1

Nodes == 0..2

-----------------------------------------------------------------------------
(* Arithmetic helpers *)

Max(a, b) == IF a >= b THEN a ELSE b

\* Rust integer division / float-to-int casts truncate toward zero
TruncDiv(a, b) == IF a >= 0 THEN a \div b ELSE -((-a) \div b)

\* a + b in i32 as the release build computes it (two's complement wrap)
AddI32(a, b) == IF b > 0 /\ a > I32Max - b THEN ((a - I32Max) + (b - I32Max)) - 2 ELSE IF b < 0 /\ a < (-I32Max - 1) - b THEN ((a + I32Max) + (b + I32Max)) + 2 ELSE a + b

\* an f64 number of milliseconds >= 0: whole and thousandths, or over for a value >= 2^31
F64(whole, frac, over) == [whole |-> whole, frac |-> frac, over |-> over]

\* `x > 0.0`
F64Positive(x) == x.over \/ x.whole > 0 \/ x.frac > 0

\* `x as i32` for x >= 0: truncates toward zero and saturates at i32::MAX
F64AsI32(x) == IF x.over THEN I32Max ELSE x.whole

SeqMin(s) == CHOOSE m \in {s[i] : i \in DOMAIN s} : \A j \in DOMAIN s : m <= s[j]

RemoveAt(s, i) == SubSeq(s, 1, i - 1) \o SubSeq(s, i + 1, Len(s))

-----------------------------------------------------------------------------
(* types.rs *)

\* the message text is only displayed: an entry is kept by its level
LogEntry(level, message) == [level |-> level]

AttackConfig(name, restart_ms, wasm_trap, wit_func) == [name |-> name, restart_ms |-> restart_ms, wasm_trap |-> wasm_trap, wit_func |-> wit_func]

AllHealthy == [i \in Nodes |-> "Healthy"]

AllAlive == [i \in Nodes |-> TRUE]

-----------------------------------------------------------------------------
(* attacks.rs *)

DefaultConfig == AttackConfig("Unknown Attack", 1000, "trap", "unknown()")

\* variant: the lookup without the heartbeatTimeout arm
get_attack_config_four_arms(attack) ==
    CASE attack = "bufferOverflow" -> AttackConfig("Buffer Overflow", 1800, "out of bounds memory access", "malloc-large()")
      [] attack = "dataExfil" -> AttackConfig("Data Exfiltration", 2100, "capability not granted: network", "open-socket()")
      [] attack = "pathTraversal" -> AttackConfig("Path Traversal", 1500, "capability not granted: filesystem", "read-file()")
      [] attack = "killLeader" -> AttackConfig("Kill Leader", 1500, "leader instance terminated", "(N/A - crash scenario)")
      [] OTHER -> DefaultConfig

get_attack_config(attack) ==
    CASE attack = "bufferOverflow" -> AttackConfig("Buffer Overflow", 1800, "out of bounds memory access", "malloc-large()")
      [] attack = "dataExfil" -> AttackConfig("Data Exfiltration", 2100, "capability not granted: network", "open-socket()")
      [] attack = "pathTraversal" -> AttackConfig("Path Traversal", 1500, "capability not granted: filesystem", "read-file()")
      [] attack = "killLeader" -> AttackConfig("Kill Leader", 1500, "leader instance terminated", "(N/A - crash scenario)")
      [] attack = "heartbeatTimeout" -> AttackConfig("Heartbeat Timeout", 2000, "leader unresponsive", "(N/A - network scenario)")
      [] OTHER -> DefaultConfig

-----------------------------------------------------------------------------
(* Restart delay: component.rs 273-282 and 468-475 *)

\* ((Math.random() * 400.0) - 200.0) as i32, for the draw k / RandDen
Jitter(k) == TruncDiv(k * JitterSpan - JitterOffset * RandDen, RandDen)

\* (Math.random() * 3.0) as u8
FaultyIdx(k) == (k * 3) \div RandDen

BaseRestartAttack(load, config) == IF F64Positive(load) THEN F64AsI32(load) ELSE config.restart_ms

BaseRestartLeader(load) == IF F64Positive(load) THEN F64AsI32(load) ELSE LeaderNominal

\* whether base_restart + jitter leaves i32: the debug build panics there
AddI32Overflows(a, b) == (b > 0 /\ a > I32Max - b) \/ (b < 0 /\ a < (-I32Max - 1) - b)

\* (base_restart + jitter).max(500) as u32
RestartMs(base, jitter) == Max(AddI32(base, jitter), MinRestart)

-----------------------------------------------------------------------------
(* Pending work: a timer set with set_timeout (wasm.rs 63-71) or an async   *)
(* browser call started with spawn_local.  rem is the remaining delay of a *)
(* timer, or the time an async call still takes to resolve.                *)

Task(kind, rem, n, m, s) == [kind |-> kind, rem |-> rem, n |-> n, m |-> m, s |-> s]

Decr(q, d) == [i \in DOMAIN q |-> [q[i] EXCEPT !.rem = @ - d]]

HasDue == \E i \in DOMAIN timers : timers[i].rem = 0

\* the browser runs due timers in the order they were set
DueIdx == CHOOSE i \in DOMAIN timers : timers[i].rem = 0 /\ \A j \in 1..(i - 1) : timers[j].rem # 0

Due == timers[DueIdx]

Rest == RemoveAt(timers, DueIdx)

DueIs(kind) == HasDue /\ Due.kind = kind

Step(op, n) == [op |-> op, n |-> n]

\* draws of Math.random() explored by the state machine
JitterDraws == {0, RandDen - 1}

FaultyDraws == {0, RandDen \div 2, RandDen - 1}

RunPythonOutcomes == {"Ok", "Err"}

\* how long an async browser call (runPython, WebAssembly compile and instantiate) takes
Latencies == {0, MaxLatency}

\* values the bootstrap script may have left in window.pyodideReady / pyodideLoadTime
WindowStates == {[ready |-> FALSE, load |-> F64(0, 0, FALSE)], [ready |-> TRUE, load |-> F64(3600, 750, FALSE)]}

SecurityAttacks == {"bufferOverflow", "dataExfil", "pathTraversal"}

LeaderAttacks == {"killLeader", "heartbeatTimeout"}

IdleProbe == [phase |-> "idle", build |-> "release", attack |-> "", load |-> F64(0, 0, FALSE), k |-> 0, config |-> DefaultConfig, base |-> 0, jitter |-> 0, delay |-> 0]

-----------------------------------------------------------------------------
(* component.rs 22-80 (signals) and 96-116 (the Pyodide poll set on mount) *)

MountedWindow(W) ==
    /\ instance_states = AllHealthy
    /\ faulty_instance = None
    /\ leader_id = 0
    /\ python_workers = AllAlive
    /\ python_active_worker = 0
    /\ python_restarting = FALSE
    /\ python_processed = 0
    /\ python_crashed = 0
    /\ python_downtime_ms = 0
    /\ wasm_processed = 0
    /\ wasm_rejected = 0
    /\ python_logs = <<>>
    /\ wasm_logs = <<>>
    /\ is_running = FALSE
    /\ running_all = FALSE
    /\ selected_attack = "bufferOverflow"
    /\ sensor_running = FALSE
    /\ pyodide_ready = FALSE
    /\ pyodide_load_ms = F64(0, 0, FALSE)
    /\ window \in W
    /\ timers = <<Task("poll", PollDelay, 0, 0, "")>>
    /\ asyncs = <<>>
    /\ last = Step("init", 0)
    /\ clicks = 0
    /\ delay_sum = 0
    /\ attacks = 0
    /\ reset_midway = FALSE
    /\ ra_trace = <<>>
    /\ fleet_size = 1000
    /\ network_type = "Cellular"

Mounted == MountedWindow(WindowStates)

Init ==
    /\ Mounted
    /\ probe = IdleProbe

-----------------------------------------------------------------------------
(* trigger_attack: component.rs 236-428 *)

\* variant: the guard blocks only during a run-all
AttackBlockedInRunAll == is_running /\ running_all

\* variant: the guard without the run-all bypass
AttackBlockedNoBypass == is_running

\* the busy guard of both attack handlers (238, 435)
AttackBlocked == is_running /\ ~running_all

PythonInitLogs == <<LogEntry("info", "$ python gateway.py --workers 3"), LogEntry("success", "[OK] Worker pool: W0 active, W1/W2 standby")>>

WasmInitLogs == <<LogEntry("info", "$ wasmtime gateway.wasm --mode 2oo3"), LogEntry("success", "[OK] 2oo3 TMR: I0, I1, I2 initialized"), LogEntry("info", "[METRICS] Instantiate (real)")>>

\* the handler body, run with the timer list T left by its caller and the draw k
trigger_attack(sel, T, k, lat) ==
    IF AttackBlocked
    THEN /\ timers' = T
         /\ UNCHANGED <<instance_states, faulty_instance, leader_id, python_workers, python_active_worker, python_restarting, python_processed, python_crashed, python_downtime_ms, wasm_processed, wasm_rejected, python_logs, wasm_logs, is_running, running_all, asyncs, delay_sum, attacks>>
    ELSE LET config == get_attack_config(sel)
             current_active == python_active_worker
             restart_ms == RestartMs(BaseRestartAttack(pyodide_load_ms, config), Jitter(k))
         IN  /\ is_running' = IF ~running_all THEN TRUE ELSE is_running
             /\ python_logs' = (IF python_logs = <<>> THEN PythonInitLogs ELSE python_logs) \o <<LogEntry("warn", "[ATTACK] Incoming"), LogEntry("info", "[EXEC] Running real Python via Pyodide...")>>
             /\ python_processed' = IF python_logs = <<>> THEN InitialProcessed ELSE python_processed
             /\ wasm_logs' = (IF wasm_logs = <<>> THEN WasmInitLogs ELSE wasm_logs) \o <<LogEntry("warn", "[ATTACK] Incoming")>>
             /\ wasm_processed' = IF wasm_logs = <<>> THEN InitialProcessed ELSE wasm_processed
             /\ asyncs' = Append(asyncs, Task("attack_python", lat, current_active, restart_ms, sel))
             /\ timers' = Append(T, Task("wasm_trap", WasmTrapDelay, 0, 0, sel))
             /\ delay_sum' = delay_sum + restart_ms
             /\ attacks' = attacks + 1
             /\ UNCHANGED <<instance_states, faulty_instance, leader_id, python_workers, python_active_worker, python_restarting, python_crashed, python_downtime_ms, wasm_rejected, running_all>>

\* variant: the restart timer adds the attack's nominal restart time
RestartAccrualNominal(t) == get_attack_config(t.s).restart_ms

\* what the restart timer adds to python_downtime_ms (366)
RestartAccrual(t) == t.m

\* variant: the failover of a security crash also moves the WASM leader
AttackPythonDoneMovesLeader(i, outcome) ==
    /\ i \in DOMAIN asyncs
    /\ asyncs[i].kind = "attack_python"
    /\ asyncs[i].rem = 0
    /\ LET a == asyncs[i]
           current_active == a.n
           next_active == (current_active + 1) % 3
       IN  /\ python_logs' = python_logs \o
                (IF outcome = "Ok"
                 THEN <<LogEntry("error", "[STATUS] type: message"), LogEntry("error", "W CRASHED - real Python exception!"), LogEntry("warn", "[POOL] Failing over")>>
                 ELSE <<LogEntry("error", "[FATAL] Uncaught"), LogEntry("error", "W CRASHED - process terminated!"), LogEntry("warn", "[POOL] Failing over")>>)
           /\ python_workers' = [AllAlive EXCEPT ![current_active] = FALSE]
           /\ python_active_worker' = next_active
           /\ leader_id' = (leader_id + 1) % 3
           /\ python_restarting' = TRUE
           /\ python_crashed' = python_crashed + 1
           /\ timers' = Append(timers, Task("restart", a.m, current_active, a.m, a.s))
           /\ asyncs' = RemoveAt(asyncs, i)
           /\ last' = Step("attack_python_done", IF outcome = "Ok" THEN 1 ELSE 0)
    /\ UNCHANGED <<instance_states, faulty_instance, python_processed, python_downtime_ms, wasm_processed, wasm_rejected, wasm_logs, is_running, running_all, selected_attack, sensor_running, pyodide_ready, pyodide_load_ms, window, clicks, delay_sum, attacks, reset_midway, ra_trace, probe, fleet_size, network_type>>

\* variant: a failed script call does not raise python_restarting
AttackPythonDoneErrNotRestarting(i, outcome) ==
    /\ i \in DOMAIN asyncs
    /\ asyncs[i].kind = "attack_python"
    /\ asyncs[i].rem = 0
    /\ LET a == asyncs[i]
           current_active == a.n
           next_active == (current_active + 1) % 3
       IN  /\ python_logs' = python_logs \o
                (IF outcome = "Ok"
                 THEN <<LogEntry("error", "[STATUS] type: message"), LogEntry("error", "W CRASHED - real Python exception!"), LogEntry("warn", "[POOL] Failing over")>>
                 ELSE <<LogEntry("error", "[FATAL] Uncaught"), LogEntry("error", "W CRASHED - process terminated!"), LogEntry("warn", "[POOL] Failing over")>>)
           /\ python_workers' = [AllAlive EXCEPT ![current_active] = FALSE]
           /\ python_active_worker' = next_active
           /\ python_restarting' = (outcome = "Ok" \/ python_restarting)
           /\ python_crashed' = python_crashed + 1
           /\ timers' = Append(timers, Task("restart", a.m, current_active, a.m, a.s))
           /\ asyncs' = RemoveAt(asyncs, i)
           /\ last' = Step("attack_python_done", IF outcome = "Ok" THEN 1 ELSE 0)
    /\ UNCHANGED <<instance_states, faulty_instance, leader_id, python_processed, python_downtime_ms, wasm_processed, wasm_rejected, wasm_logs, is_running, running_all, selected_attack, sensor_running, pyodide_ready, pyodide_load_ms, window, clicks, delay_sum, attacks, reset_midway, ra_trace, probe, fleet_size, network_type>>

\* variant: a failed script call marks the worker dead but keeps it active
AttackPythonDoneErrNoFailover(i, outcome) ==
    /\ i \in DOMAIN asyncs
    /\ asyncs[i].kind = "attack_python"
    /\ asyncs[i].rem = 0
    /\ LET a == asyncs[i]
           current_active == a.n
           next_active == (current_active + 1) % 3
       IN  /\ python_logs' = python_logs \o
                (IF outcome = "Ok"
                 THEN <<LogEntry("error", "[STATUS] type: message"), LogEntry("error", "W CRASHED - real Python exception!"), LogEntry("warn", "[POOL] Failing over")>>
                 ELSE <<LogEntry("error", "[FATAL] Uncaught"), LogEntry("error", "W CRASHED - process terminated!"), LogEntry("warn", "[POOL] Failing over")>>)
           /\ python_workers' = [AllAlive EXCEPT ![current_active] = FALSE]
           /\ python_active_worker' = IF outcome = "Ok" THEN next_active ELSE current_active
           /\ python_restarting' = TRUE
           /\ python_crashed' = python_crashed + 1
           /\ timers' = Append(timers, Task("restart", a.m, current_active, a.m, a.s))
           /\ asyncs' = RemoveAt(asyncs, i)
           /\ last' = Step("attack_python_done", IF outcome = "Ok" THEN 1 ELSE 0)
    /\ UNCHANGED <<instance_states, faulty_instance, leader_id, python_processed, python_downtime_ms, wasm_processed, wasm_rejected, wasm_logs, is_running, running_all, selected_attack, sensor_running, pyodide_ready, pyodide_load_ms, window, clicks, delay_sum, attacks, reset_midway, ra_trace, probe, fleet_size, network_type>>

\* runPython resolved or rejected: log the crash, fail over, set the restart timer (291-380)
AttackPythonDone(i, outcome) ==
    /\ i \in DOMAIN asyncs
    /\ asyncs[i].kind = "attack_python"
    /\ asyncs[i].rem = 0
    /\ LET a == asyncs[i]
           current_active == a.n
           next_active == (current_active + 1) % 3
       IN  /\ python_logs' = python_logs \o
                (IF outcome = "Ok"
                 THEN <<LogEntry("error", "[STATUS] type: message"), LogEntry("error", "W CRASHED - real Python exception!"), LogEntry("warn", "[POOL] Failing over")>>
                 ELSE <<LogEntry("error", "[FATAL] Uncaught"), LogEntry("error", "W CRASHED - process terminated!"), LogEntry("warn", "[POOL] Failing over")>>)
           /\ python_workers' = [AllAlive EXCEPT ![current_active] = FALSE]
           /\ python_active_worker' = next_active
           /\ python_restarting' = TRUE
           /\ python_crashed' = python_crashed + 1
           /\ timers' = Append(timers, Task("restart", a.m, current_active, a.m, a.s))
           /\ asyncs' = RemoveAt(asyncs, i)
           /\ last' = Step("attack_python_done", IF outcome = "Ok" THEN 1 ELSE 0)
    /\ UNCHANGED <<instance_states, faulty_instance, leader_id, python_processed, python_downtime_ms, wasm_processed, wasm_rejected, wasm_logs, is_running, running_all, selected_attack, sensor_running, pyodide_ready, pyodide_load_ms, window, clicks, delay_sum, attacks, reset_midway, ra_trace, probe, fleet_size, network_type>>

\* variant: the restart timer sets the downtime to the last delay
RestartTimerSetsDowntime ==
    /\ DueIs("restart")
    /\ python_workers' = AllAlive
    /\ python_restarting' = FALSE
    /\ python_downtime_ms' = RestartAccrual(Due)
    /\ python_logs' = python_logs \o <<LogEntry("success", "[OK] W respawned - pool restored"), LogEntry("info", "[VOTE] 3/3 workers ready - voting now possible")>>
    /\ is_running' = IF ~running_all THEN FALSE ELSE is_running
    /\ timers' = Rest
    /\ last' = Step("restart_timer", Due.m)
    /\ UNCHANGED <<instance_states, faulty_instance, leader_id, python_active_worker, python_processed, python_crashed, wasm_processed, wasm_rejected, wasm_logs, running_all, selected_attack, sensor_running, pyodide_ready, pyodide_load_ms, window, asyncs, clicks, delay_sum, attacks, reset_midway, ra_trace, probe, fleet_size, network_type>>

\* variant: the respawn timer releases is_running during a run-all too
RestartTimerAlwaysReleases ==
    /\ DueIs("restart")
    /\ python_workers' = AllAlive
    /\ python_restarting' = FALSE
    /\ python_downtime_ms' = python_downtime_ms + RestartAccrual(Due)
    /\ python_logs' = python_logs \o <<LogEntry("success", "[OK] W respawned - pool restored"), LogEntry("info", "[VOTE] 3/3 workers ready - voting now possible")>>
    /\ is_running' = FALSE
    /\ timers' = Rest
    /\ last' = Step("restart_timer", Due.m)
    /\ UNCHANGED <<instance_states, faulty_instance, leader_id, python_active_worker, python_processed, python_crashed, wasm_processed, wasm_rejected, wasm_logs, running_all, selected_attack, sensor_running, pyodide_ready, pyodide_load_ms, window, asyncs, clicks, delay_sum, attacks, reset_midway, ra_trace, probe, fleet_size, network_type>>

\* the restart timer (363-379)
RestartTimer ==
    /\ DueIs("restart")
    /\ python_workers' = AllAlive
    /\ python_restarting' = FALSE
    /\ python_downtime_ms' = python_downtime_ms + RestartAccrual(Due)
    /\ python_logs' = python_logs \o <<LogEntry("success", "[OK] W respawned - pool restored"), LogEntry("info", "[VOTE] 3/3 workers ready - voting now possible")>>
    /\ is_running' = IF ~running_all THEN FALSE ELSE is_running
    /\ timers' = Rest
    /\ last' = Step("restart_timer", Due.m)
    /\ UNCHANGED <<instance_states, faulty_instance, leader_id, python_active_worker, python_processed, python_crashed, wasm_processed, wasm_rejected, wasm_logs, running_all, selected_attack, sensor_running, pyodide_ready, pyodide_load_ms, window, asyncs, clicks, delay_sum, attacks, reset_midway, ra_trace, probe, fleet_size, network_type>>

\* the 100 ms timer of the wasm side: one instance traps, then is rebuilt (385-427)
WasmTrapTimer(k, lat) ==
    /\ DueIs("wasm_trap")
    /\ LET faulty_idx == FaultyIdx(k)
       IN  /\ faulty_instance' = faulty_idx
           /\ instance_states' = [instance_states EXCEPT ![faulty_idx] = "Faulty"]
           /\ asyncs' = Append(asyncs, Task("rebuild", lat, faulty_idx, 0, ""))
           /\ last' = Step("wasm_trap_timer", faulty_idx)
    /\ wasm_logs' = wasm_logs \o <<LogEntry("warn", "[TRAP]"), LogEntry("info", "[WIT] blocked"), LogEntry("info", "[OUT]"), LogEntry("success", "[VOTE] 2/3 outputs agree"), LogEntry("success", "[OK] Zero downtime - continues with valid output")>>
    /\ wasm_rejected' = wasm_rejected + 1
    /\ timers' = Rest
    /\ UNCHANGED <<leader_id, python_workers, python_active_worker, python_restarting, python_processed, python_crashed, python_downtime_ms, wasm_processed, python_logs, is_running, running_all, selected_attack, sensor_running, pyodide_ready, pyodide_load_ms, window, clicks, delay_sum, attacks, reset_midway, ra_trace, probe, fleet_size, network_type>>

\* measure_instantiate_time resolved: the faulty instance is rebuilt (412-426)
RebuildDone(i) ==
    /\ i \in DOMAIN asyncs
    /\ asyncs[i].kind = "rebuild"
    /\ asyncs[i].rem = 0
    /\ instance_states' = [instance_states EXCEPT ![asyncs[i].n] = "Healthy"]
    /\ faulty_instance' = None
    /\ wasm_logs' = wasm_logs \o <<LogEntry("success", "[OK] I rebuilt (real) - pool healthy")>>
    /\ asyncs' = RemoveAt(asyncs, i)
    /\ last' = Step("rebuild_done", asyncs[i].n)
    /\ UNCHANGED <<leader_id, python_workers, python_active_worker, python_restarting, python_processed, python_crashed, python_downtime_ms, wasm_processed, wasm_rejected, python_logs, is_running, running_all, selected_attack, sensor_running, pyodide_ready, pyodide_load_ms, window, timers, clicks, delay_sum, attacks, reset_midway, ra_trace, probe, fleet_size, network_type>>

-----------------------------------------------------------------------------
(* trigger_leader_crash: component.rs 433-552 *)

\* variant: the election does not wrap round
NewLeaderNoWrap(old_leader) == IF old_leader = 2 THEN 2 ELSE old_leader + 1

\* the leader elected when leader old_leader crashes (499)
NewLeader(old_leader) == (old_leader + 1) % 3

\* variant: the crash takes the next worker down with the active one
MarkLeaderAndNextDead(workers, current_leader_py) == [workers EXCEPT ![current_leader_py] = FALSE, ![(current_leader_py + 1) % 3] = FALSE]

\* the worker array after the crash of the active worker (463-465)
MarkLeaderDead(workers, current_leader_py) == [workers EXCEPT ![current_leader_py] = FALSE]

trigger_leader_crash(sel, T, k, lat) ==
    IF AttackBlocked
    THEN /\ timers' = T
         /\ UNCHANGED <<instance_states, faulty_instance, leader_id, python_workers, python_active_worker, python_restarting, python_processed, python_crashed, python_downtime_ms, wasm_processed, wasm_rejected, python_logs, wasm_logs, is_running, running_all, asyncs, delay_sum, attacks>>
    ELSE LET is_timeout == sel = "heartbeatTimeout"
             current_leader_py == python_active_worker
             restart_ms == RestartMs(BaseRestartLeader(pyodide_load_ms), Jitter(k))
             next_leader_py == (current_leader_py + 1) % 3
             old_leader == leader_id
             new_leader == NewLeader(old_leader)
         IN  /\ is_running' = IF ~running_all THEN TRUE ELSE is_running
             /\ python_logs' = python_logs \o <<LogEntry("error", IF is_timeout THEN "[RAFT] Leader W unresponsive!" ELSE "[RAFT] Leader W crashed!"), LogEntry("warn", "[RAFT] Starting election..."), LogEntry("error", "[RAFT] Election BLOCKED - need leader respawn first")>>
             /\ python_workers' = MarkLeaderDead(python_workers, current_leader_py)
             /\ python_restarting' = TRUE
             /\ python_downtime_ms' = python_downtime_ms + restart_ms
             /\ python_crashed' = python_crashed + 1
             /\ timers' = Append(T, Task("leader_respawn", restart_ms, current_leader_py, next_leader_py, sel))
             /\ instance_states' = [instance_states EXCEPT ![old_leader] = "Faulty"]
             /\ faulty_instance' = old_leader
             /\ wasm_logs' = wasm_logs \o <<LogEntry("error", IF is_timeout THEN "[RAFT] Leader I missed heartbeat!" ELSE "[RAFT] Leader I crashed!"), LogEntry("info", "[RAFT] Election started...")>>
             /\ asyncs' = Append(asyncs, Task("election", lat, old_leader, new_leader, sel))
             /\ delay_sum' = delay_sum + restart_ms
             /\ attacks' = attacks + 1
             /\ UNCHANGED <<leader_id, python_active_worker, python_processed, wasm_processed, wasm_rejected, running_all>>

\* variant: the leader respawn timer leaves is_running alone
LeaderRespawnTimerKeepsBusy ==
    /\ DueIs("leader_respawn")
    /\ python_workers' = AllAlive
    /\ python_active_worker' = Due.m
    /\ python_restarting' = FALSE
    /\ python_logs' = python_logs \o <<LogEntry("success", "[OK] W respawned - W elected as leader")>>
    /\ is_running' = is_running
    /\ timers' = Rest
    /\ last' = Step("leader_respawn_timer", Due.n)
    /\ UNCHANGED <<instance_states, faulty_instance, leader_id, python_processed, python_crashed, python_downtime_ms, wasm_processed, wasm_rejected, wasm_logs, running_all, selected_attack, sensor_running, pyodide_ready, pyodide_load_ms, window, asyncs, clicks, delay_sum, attacks, reset_midway, ra_trace, probe, fleet_size, network_type>>

\* the respawn timer of the Python leader (480-493)
LeaderRespawnTimer ==
    /\ DueIs("leader_respawn")
    /\ python_workers' = AllAlive
    /\ python_active_worker' = Due.m
    /\ python_restarting' = FALSE
    /\ python_logs' = python_logs \o <<LogEntry("success", "[OK] W respawned - W elected as leader")>>
    /\ is_running' = IF ~running_all THEN FALSE ELSE is_running
    /\ timers' = Rest
    /\ last' = Step("leader_respawn_timer", Due.n)
    /\ UNCHANGED <<instance_states, faulty_instance, leader_id, python_processed, python_crashed, python_downtime_ms, wasm_processed, wasm_rejected, wasm_logs, running_all, selected_attack, sensor_running, pyodide_ready, pyodide_load_ms, window, asyncs, clicks, delay_sum, attacks, reset_midway, ra_trace, probe, fleet_size, network_type>>

\* measure_instantiate_time resolved: the new leader is installed (520-551)
ElectionDone(i) ==
    /\ i \in DOMAIN asyncs
    /\ asyncs[i].kind = "election"
    /\ asyncs[i].rem = 0
    /\ leader_id' = asyncs[i].m
    /\ wasm_rejected' = wasm_rejected + 1
    /\ wasm_logs' = wasm_logs \o <<LogEntry("success", "[RAFT] I elected as new leader"), LogEntry("success", "[OK] Zero downtime - new leader accepting writes")>>
    /\ timers' = Append(timers, Task("rebuild_follower", RebuildDelay, asyncs[i].n, 0, ""))
    /\ asyncs' = RemoveAt(asyncs, i)
    /\ last' = Step("election_done", asyncs[i].n)
    /\ UNCHANGED <<instance_states, faulty_instance, python_workers, python_active_worker, python_restarting, python_processed, python_crashed, python_downtime_ms, wasm_processed, python_logs, is_running, running_all, selected_attack, sensor_running, pyodide_ready, pyodide_load_ms, window, clicks, delay_sum, attacks, reset_midway, ra_trace, probe, fleet_size, network_type>>

\* variant: the 50 ms timer clears faulty_instance but leaves the old leader Faulty
RebuildFollowerTimerNoRebuild ==
    /\ DueIs("rebuild_follower")
    /\ instance_states' = instance_states
    /\ faulty_instance' = None
    /\ wasm_logs' = wasm_logs \o <<LogEntry("info", "[OK] I rebuilt as follower - pool healthy")>>
    /\ timers' = Rest
    /\ last' = Step("rebuild_follower_timer", Due.n)
    /\ UNCHANGED <<leader_id, python_workers, python_active_worker, python_restarting, python_processed, python_crashed, python_downtime_ms, wasm_processed, wasm_rejected, python_logs, is_running, running_all, selected_attack, sensor_running, pyodide_ready, pyodide_load_ms, window, asyncs, clicks, delay_sum, attacks, reset_midway, ra_trace, probe, fleet_size, network_type>>

\* the 50 ms timer that rebuilds the old leader as a follower (538-550)
RebuildFollowerTimer ==
    /\ DueIs("rebuild_follower")
    /\ instance_states' = [instance_states EXCEPT ![Due.n] = "Healthy"]
    /\ faulty_instance' = None
    /\ wasm_logs' = wasm_logs \o <<LogEntry("info", "[OK] I rebuilt as follower - pool healthy")>>
    /\ timers' = Rest
    /\ last' = Step("rebuild_follower_timer", Due.n)
    /\ UNCHANGED <<leader_id, python_workers, python_active_worker, python_restarting, python_processed, python_crashed, python_downtime_ms, wasm_processed, wasm_rejected, python_logs, is_running, running_all, selected_attack, sensor_running, pyodide_ready, pyodide_load_ms, window, asyncs, clicks, delay_sum, attacks, reset_midway, ra_trace, probe, fleet_size, network_type>>

-----------------------------------------------------------------------------
(* run_all_attacks: component.rs 557-597 *)

\* the five attacks in order, with the handler each one uses (565-571)
RunAllList == <<[attack |-> "bufferOverflow", leader |-> FALSE], [attack |-> "dataExfil", leader |-> FALSE], [attack |-> "pathTraversal", leader |-> FALSE], [attack |-> "killLeader", leader |-> TRUE], [attack |-> "heartbeatTimeout", leader |-> TRUE]>>

\* the busy guard of run_all_attacks (558)
RunAllBlocked == is_running \/ running_all

\* the six timers one run-all sets: one per attack, 3500 ms apart, and the final one
RunAllTimers == [i \in 1..Len(RunAllList) |-> Task("run_all_outer", (i - 1) * RunAllSpacing, IF RunAllList[i].leader THEN 1 ELSE 0, 0, RunAllList[i].attack)] \o <<Task("run_all_final", RunAllFinalDelay, 0, 0, "")>>

run_all_attacks(T) ==
    IF RunAllBlocked
    THEN /\ timers' = T
         /\ UNCHANGED <<is_running, running_all>>
    ELSE /\ is_running' = TRUE
         /\ running_all' = TRUE
         /\ timers' = T \o RunAllTimers

\* the outer timer of one attack: select it, then call its handler 100 ms later (578-588)
RunAllOuterTimer ==
    /\ DueIs("run_all_outer")
    /\ selected_attack' = Due.s
    /\ timers' = Append(Rest, Task("run_all_inner", RunAllInnerDelay, Due.n, 0, Due.s))
    /\ last' = Step("run_all_outer_timer", Due.n)
    /\ UNCHANGED <<instance_states, faulty_instance, leader_id, python_workers, python_active_worker, python_restarting, python_processed, python_crashed, python_downtime_ms, wasm_processed, wasm_rejected, python_logs, wasm_logs, is_running, running_all, sensor_running, pyodide_ready, pyodide_load_ms, window, asyncs, clicks, delay_sum, attacks, reset_midway, ra_trace, probe, fleet_size, network_type>>

\* the inner timer: the handler runs and reads selected_attack (580-587)
RunAllInnerTimer(k, lat) ==
    /\ DueIs("run_all_inner")
    /\ IF Due.n = 1 THEN trigger_leader_crash(selected_attack, Rest, k, lat) ELSE trigger_attack(selected_attack, Rest, k, lat)
    /\ ra_trace' = Append(ra_trace, [attack |-> Due.s, read |-> selected_attack, leader |-> Due.n = 1, accepted |-> ~AttackBlocked])
    /\ last' = Step(IF Due.n = 1 THEN "trigger_leader_crash" ELSE "trigger_attack", IF AttackBlocked THEN 0 ELSE 1)
    /\ UNCHANGED <<selected_attack, sensor_running, pyodide_ready, pyodide_load_ms, window, clicks, reset_midway, probe, fleet_size, network_type>>

\* the final timer, 20500 ms after the click (593-596)
RunAllFinalTimer ==
    /\ DueIs("run_all_final")
    /\ running_all' = FALSE
    /\ is_running' = FALSE
    /\ timers' = Rest
    /\ last' = Step("run_all_final_timer", 0)
    /\ UNCHANGED <<instance_states, faulty_instance, leader_id, python_workers, python_active_worker, python_restarting, python_processed, python_crashed, python_downtime_ms, wasm_processed, wasm_rejected, python_logs, wasm_logs, selected_attack, sensor_running, pyodide_ready, pyodide_load_ms, window, asyncs, clicks, delay_sum, attacks, reset_midway, ra_trace, probe, fleet_size, network_type>>

-----------------------------------------------------------------------------
(* reset_demo: component.rs 602-618 *)

\* a callback that will still add to the Python downtime
CrashCallbackPending == (\E i \in DOMAIN asyncs : asyncs[i].kind = "attack_python") \/ (\E i \in DOMAIN timers : timers[i].kind = "restart")

\* variant: Reset leaves the leader where it is
reset_demo_keeps_leader ==
    /\ python_logs' = <<>>
    /\ wasm_logs' = <<>>
    /\ python_processed' = 0
    /\ python_crashed' = 0
    /\ python_downtime_ms' = 0
    /\ wasm_processed' = 0
    /\ wasm_rejected' = 0
    /\ instance_states' = AllHealthy
    /\ faulty_instance' = None
    /\ leader_id' = leader_id
    /\ python_workers' = AllAlive
    /\ python_active_worker' = 0
    /\ python_restarting' = FALSE
    /\ is_running' = FALSE
    /\ running_all' = FALSE

reset_demo ==
    /\ python_logs' = <<>>
    /\ wasm_logs' = <<>>
    /\ python_processed' = 0
    /\ python_crashed' = 0
    /\ python_downtime_ms' = 0
    /\ wasm_processed' = 0
    /\ wasm_rejected' = 0
    /\ instance_states' = AllHealthy
    /\ faulty_instance' = None
    /\ leader_id' = 0
    /\ python_workers' = AllAlive
    /\ python_active_worker' = 0
    /\ python_restarting' = FALSE
    /\ is_running' = FALSE
    /\ running_all' = FALSE

-----------------------------------------------------------------------------
(* run_sensor_comparison: component.rs 153-231 *)

\* variant: the sensor check starts the Python log afresh
run_sensor_comparison_clears(lat) ==
    IF sensor_running
    THEN UNCHANGED <<sensor_running, python_logs, wasm_logs, asyncs>>
    ELSE /\ sensor_running' = TRUE
         /\ python_logs' = <<LogEntry("info", "$ python sensor_driver.py"), LogEntry("info", "[...] Loading Pyodide runtime...")>>
         /\ wasm_logs' = wasm_logs \o <<LogEntry("info", "$ wasmtime sensor_driver.wasm"), LogEntry("success", "[OK] Module instantiated"), LogEntry("success", "[OK] BME280 driver initialized"), LogEntry("info", "Temperature"), LogEntry("info", "Humidity"), LogEntry("info", "Pressure")>>
         /\ asyncs' = Append(asyncs, Task("sensor_python", lat, 0, 0, ""))

run_sensor_comparison(lat) ==
    IF sensor_running
    THEN UNCHANGED <<sensor_running, python_logs, wasm_logs, asyncs>>
    ELSE /\ sensor_running' = TRUE
         /\ python_logs' = python_logs \o <<LogEntry("info", "$ python sensor_driver.py"), LogEntry("info", "[...] Loading Pyodide runtime...")>>
         /\ wasm_logs' = wasm_logs \o <<LogEntry("info", "$ wasmtime sensor_driver.wasm"), LogEntry("success", "[OK] Module instantiated"), LogEntry("success", "[OK] BME280 driver initialized"), LogEntry("info", "Temperature"), LogEntry("info", "Humidity"), LogEntry("info", "Pressure")>>
         /\ asyncs' = Append(asyncs, Task("sensor_python", lat, 0, 0, ""))

\* variant: a failed sensor script leaves sensor_running set
SensorPythonDoneKeepsBusyOnErr(i, outcome) ==
    /\ i \in DOMAIN asyncs
    /\ asyncs[i].kind = "sensor_python"
    /\ asyncs[i].rem = 0
    /\ python_logs' = python_logs \o
         (IF outcome = "Ok"
          THEN <<LogEntry("success", "[OK] Pyodide executed"), LogEntry("success", "[OK] BME280 driver initialized"), LogEntry("info", "Temperature"), LogEntry("info", "Humidity"), LogEntry("info", "Pressure")>>
          ELSE <<LogEntry("error", "[ERR] Pyodide error")>>)
    /\ sensor_running' = (outcome = "Err")
    /\ asyncs' = RemoveAt(asyncs, i)
    /\ last' = Step("sensor_python_done", IF outcome = "Ok" THEN 1 ELSE 0)
    /\ UNCHANGED <<instance_states, faulty_instance, leader_id, python_workers, python_active_worker, python_restarting, python_processed, python_crashed, python_downtime_ms, wasm_processed, wasm_rejected, wasm_logs, is_running, running_all, selected_attack, pyodide_ready, pyodide_load_ms, window, timers, clicks, delay_sum, attacks, reset_midway, ra_trace, probe, fleet_size, network_type>>

\* runPython of the sensor script resolved or rejected (207-229)
SensorPythonDone(i, outcome) ==
    /\ i \in DOMAIN asyncs
    /\ asyncs[i].kind = "sensor_python"
    /\ asyncs[i].rem = 0
    /\ python_logs' = python_logs \o
         (IF outcome = "Ok"
          THEN <<LogEntry("success", "[OK] Pyodide executed"), LogEntry("success", "[OK] BME280 driver initialized"), LogEntry("info", "Temperature"), LogEntry("info", "Humidity"), LogEntry("info", "Pressure")>>
          ELSE <<LogEntry("error", "[ERR] Pyodide error")>>)
    /\ sensor_running' = FALSE
    /\ asyncs' = RemoveAt(asyncs, i)
    /\ last' = Step("sensor_python_done", IF outcome = "Ok" THEN 1 ELSE 0)
    /\ UNCHANGED <<instance_states, faulty_instance, leader_id, python_workers, python_active_worker, python_restarting, python_processed, python_crashed, python_downtime_ms, wasm_processed, wasm_rejected, wasm_logs, is_running, running_all, selected_attack, pyodide_ready, pyodide_load_ms, window, timers, clicks, delay_sum, attacks, reset_midway, ra_trace, probe, fleet_size, network_type>>

\* the one poll of window.pyodideReady, 500 ms after mount (96-116)
PollPyodide ==
    /\ DueIs("poll")
    /\ pyodide_ready' = window.ready
    /\ pyodide_load_ms' = IF window.ready THEN window.load ELSE pyodide_load_ms
    /\ timers' = Rest
    /\ last' = Step("poll", 0)
    /\ UNCHANGED <<instance_states, faulty_instance, leader_id, python_workers, python_active_worker, python_restarting, python_processed, python_crashed, python_downtime_ms, wasm_processed, wasm_rejected, python_logs, wasm_logs, is_running, running_all, selected_attack, sensor_running, window, asyncs, clicks, delay_sum, attacks, reset_midway, ra_trace, probe, fleet_size, network_type>>

-----------------------------------------------------------------------------
(* The buttons of the view: component.rs 685-690 and 841-933.  A button     *)
(* that is disabled delivers no click.                                     *)

AttackButtonDisabled == is_running

RunAllButtonDisabled == is_running

ResetButtonDisabled == is_running

SensorButtonDisabled == sensor_running \/ ~pyodide_ready \/ is_running

\* one of the three security attack buttons (841-876)
ClickAttack(a, k, lat) ==
    /\ ~AttackButtonDisabled
    /\ clicks < MaxClicks
    /\ selected_attack' = a
    /\ trigger_attack(a, timers, k, lat)
    /\ last' = Step("trigger_attack", 1)
    /\ clicks' = clicks + 1
    /\ UNCHANGED <<sensor_running, pyodide_ready, pyodide_load_ms, window, reset_midway, ra_trace, probe, fleet_size, network_type>>

\* one of the two availability attack buttons (887-910), within a budget of clicks
LeaderCrashButton(a, k, lat, budget) ==
    /\ ~AttackButtonDisabled
    /\ clicks < budget
    /\ selected_attack' = a
    /\ trigger_leader_crash(a, timers, k, lat)
    /\ last' = Step("trigger_leader_crash", 1)
    /\ clicks' = clicks + 1
    /\ UNCHANGED <<sensor_running, pyodide_ready, pyodide_load_ms, window, reset_midway, ra_trace, probe, fleet_size, network_type>>

ClickLeaderCrash(a, k, lat) == LeaderCrashButton(a, k, lat, MaxClicks)

\* the Run All Attacks button (918-925)
ClickRunAll ==
    /\ ~RunAllButtonDisabled
    /\ clicks = 0
    /\ run_all_attacks(timers)
    /\ ra_trace' = <<>>
    /\ last' = Step("run_all_attacks", 1)
    /\ clicks' = MaxClicks
    /\ UNCHANGED <<instance_states, faulty_instance, leader_id, python_workers, python_active_worker, python_restarting, python_processed, python_crashed, python_downtime_ms, wasm_processed, wasm_rejected, python_logs, wasm_logs, selected_attack, sensor_running, pyodide_ready, pyodide_load_ms, window, asyncs, delay_sum, attacks, reset_midway, probe, fleet_size, network_type>>

\* variant: Reset also drops every pending timer and async call
ClickResetCancels ==
    /\ ~ResetButtonDisabled
    /\ reset_demo
    /\ last' = Step("reset_demo", 0)
    /\ delay_sum' = 0
    /\ attacks' = 0
    /\ reset_midway' = CrashCallbackPending
    /\ ra_trace' = <<>>
    /\ UNCHANGED <<selected_attack, sensor_running, pyodide_ready, pyodide_load_ms, window, clicks, probe, fleet_size, network_type>>
    /\ timers' = <<>>
    /\ asyncs' = <<>>

\* the Reset button (926-933)
ClickReset ==
    /\ ~ResetButtonDisabled
    /\ reset_demo
    /\ last' = Step("reset_demo", 0)
    /\ delay_sum' = 0
    /\ attacks' = 0
    /\ reset_midway' = CrashCallbackPending
    /\ ra_trace' = <<>>
    /\ UNCHANGED <<selected_attack, sensor_running, pyodide_ready, pyodide_load_ms, window, timers, asyncs, clicks, probe, fleet_size, network_type>>

\* the Run Sensor Check button (685-690)
ClickSensor(lat) ==
    /\ ~SensorButtonDisabled
    /\ clicks < MaxClicks
    /\ run_sensor_comparison(lat)
    /\ last' = Step("run_sensor_comparison", 1)
    /\ clicks' = clicks + 1
    /\ UNCHANGED <<instance_states, faulty_instance, leader_id, python_workers, python_active_worker, python_restarting, python_processed, python_crashed, python_downtime_ms, wasm_processed, wasm_rejected, is_running, running_all, selected_attack, pyodide_ready, pyodide_load_ms, window, timers, delay_sum, attacks, reset_midway, ra_trace, probe, fleet_size, network_type>>

-----------------------------------------------------------------------------
(* Time: it passes up to the next timer deadline or the next instant at    *)
(* which a pending async call resolves; whatever is due runs first.        *)

Advance ==
    /\ Len(timers) + Len(asyncs) > 0
    /\ LET d == SeqMin([i \in 1..(Len(timers) + Len(asyncs)) |-> IF i <= Len(timers) THEN timers[i].rem ELSE asyncs[i - Len(timers)].rem])
       IN  /\ d > 0
           /\ timers' = Decr(timers, d)
           /\ asyncs' = Decr(asyncs, d)
           /\ last' = Step("advance", d)
    /\ UNCHANGED <<progvars, window, clicks, delay_sum, attacks, reset_midway, ra_trace, probe, fleet_size, network_type>>

Next ==
    \/ \E a \in SecurityAttacks, k \in JitterDraws, lat \in Latencies : ClickAttack(a, k, lat)
    \/ \E a \in LeaderAttacks, k \in JitterDraws, lat \in Latencies : ClickLeaderCrash(a, k, lat)
    \/ ClickRunAll
    \/ ClickReset
    \/ \E lat \in Latencies : ClickSensor(lat)
    \/ \E i \in DOMAIN asyncs, o \in RunPythonOutcomes : AttackPythonDone(i, o)
    \/ RestartTimer
    \/ \E k \in FaultyDraws, lat \in Latencies : WasmTrapTimer(k, lat)
    \/ \E i \in DOMAIN asyncs : RebuildDone(i)
    \/ LeaderRespawnTimer
    \/ \E i \in DOMAIN asyncs : ElectionDone(i)
    \/ RebuildFollowerTimer
    \/ RunAllOuterTimer
    \/ \E k \in JitterDraws, lat \in Latencies : RunAllInnerTimer(k, lat)
    \/ RunAllFinalTimer
    \/ \E i \in DOMAIN asyncs, o \in RunPythonOutcomes : SensorPythonDone(i, o)
    \/ PollPyodide
    \/ Advance

Spec == Init /\ [][Next]_vars

-----------------------------------------------------------------------------
(* SpecLeader: the leader-crash path on its own, with enough clicks for    *)
(* the leader to go round the three instances.                             *)

ClickLeaderCrashOnly(a, k, lat) == LeaderCrashButton(a, k, lat, MaxLeaderCrashes)

NextLeader ==
    \/ \E a \in LeaderAttacks, k \in JitterDraws, lat \in Latencies : ClickLeaderCrashOnly(a, k, lat)
    \/ ClickReset
    \/ LeaderRespawnTimer
    \/ \E i \in DOMAIN asyncs : ElectionDone(i)
    \/ RebuildFollowerTimer
    \/ PollPyodide
    \/ Advance

SpecLeader == Init /\ [][NextLeader]_vars

-----------------------------------------------------------------------------
(* SpecHandlers: the three guarded handlers called in any state, as a      *)
(* caller other than an enabled button would call them.                    *)

CallTriggerAttack(k, lat) ==
    /\ AttackBlocked \/ clicks < MaxClicks
    /\ trigger_attack(selected_attack, timers, k, lat)
    /\ last' = Step("trigger_attack", IF AttackBlocked THEN 0 ELSE 1)
    /\ clicks' = IF AttackBlocked THEN clicks ELSE clicks + 1
    /\ UNCHANGED <<selected_attack, sensor_running, pyodide_ready, pyodide_load_ms, window, reset_midway, ra_trace, probe, fleet_size, network_type>>

CallTriggerLeaderCrash(k, lat) ==
    /\ AttackBlocked \/ clicks < MaxClicks
    /\ trigger_leader_crash(selected_attack, timers, k, lat)
    /\ last' = Step("trigger_leader_crash", IF AttackBlocked THEN 0 ELSE 1)
    /\ clicks' = IF AttackBlocked THEN clicks ELSE clicks + 1
    /\ UNCHANGED <<selected_attack, sensor_running, pyodide_ready, pyodide_load_ms, window, reset_midway, ra_trace, probe, fleet_size, network_type>>

CallRunAll ==
    /\ RunAllBlocked \/ clicks = 0
    /\ run_all_attacks(timers)
    /\ ra_trace' = IF RunAllBlocked THEN ra_trace ELSE <<>>
    /\ last' = Step("run_all_attacks", IF RunAllBlocked THEN 0 ELSE 1)
    /\ clicks' = IF RunAllBlocked THEN clicks ELSE MaxClicks
    /\ UNCHANGED <<instance_states, faulty_instance, leader_id, python_workers, python_active_worker, python_restarting, python_processed, python_crashed, python_downtime_ms, wasm_processed, wasm_rejected, python_logs, wasm_logs, selected_attack, sensor_running, pyodide_ready, pyodide_load_ms, window, asyncs, delay_sum, attacks, reset_midway, probe, fleet_size, network_type>>

NextHandlers ==
    \/ Next
    \/ \E k \in JitterDraws, lat \in Latencies : CallTriggerAttack(k, lat)
    \/ \E k \in JitterDraws, lat \in Latencies : CallTriggerLeaderCrash(k, lat)
    \/ CallRunAll

SpecHandlers == Init /\ [][NextHandlers]_vars

-----------------------------------------------------------------------------
(* SpecPure: the pure functions applied to drawn inputs.                   *)

KnownAttacks == {"bufferOverflow", "dataExfil", "pathTraversal", "killLeader", "heartbeatTimeout"}

ProbeAttacks == KnownAttacks \cup {"", "nonexistent_attack_xyz", "BufferOverflow", "killleader"}

ProbeLoads == {F64(0, 0, FALSE), F64(0, 500, FALSE), F64(1, 0, FALSE), F64(499, 999, FALSE), F64(700, 0, FALSE), F64(3600, 750, FALSE), F64(I32Max - 199, 0, FALSE), F64(I32Max, 0, FALSE), F64(I32Max, 0, TRUE)}

\* overflow checks are on in a debug build and off in a release build
Builds == {"release", "debug"}

InitPure ==
    /\ Mounted
    /\ window.ready = FALSE
    /\ \E a \in ProbeAttacks, l \in ProbeLoads, k \in 0..(RandDen - 1), b \in Builds :
          probe = [IdleProbe EXCEPT !.phase = "input", !.build = b, !.attack = a, !.load = l, !.k = k]

\* get_attack_config(&attack)
ProbeLookup ==
    /\ probe.phase = "input"
    /\ probe' = [probe EXCEPT !.phase = "config", !.config = get_attack_config(probe.attack)]
    /\ UNCHANGED <<progvars, window, timers, asyncs, last, clicks, delay_sum, attacks, reset_midway, ra_trace, fleet_size, network_type>>

\* the restart delay as trigger_attack computes it (275-282)
ProbeAttackDelay ==
    /\ probe.phase = "config"
    /\ LET base == BaseRestartAttack(probe.load, probe.config)
           jitter == Jitter(probe.k)
       IN  IF probe.build = "debug" /\ AddI32Overflows(base, jitter)
           THEN probe' = [probe EXCEPT !.phase = "attack_panic", !.base = base, !.jitter = jitter]
           ELSE probe' = [probe EXCEPT !.phase = "attack_delay", !.base = base, !.jitter = jitter, !.delay = RestartMs(base, jitter)]
    /\ UNCHANGED <<progvars, window, timers, asyncs, last, clicks, delay_sum, attacks, reset_midway, ra_trace, fleet_size, network_type>>

\* the restart delay as trigger_leader_crash computes it (469-475)
ProbeLeaderDelay ==
    /\ probe.phase = "config"
    /\ LET base == BaseRestartLeader(probe.load)
           jitter == Jitter(probe.k)
       IN  IF probe.build = "debug" /\ AddI32Overflows(base, jitter)
           THEN probe' = [probe EXCEPT !.phase = "leader_panic", !.base = base, !.jitter = jitter]
           ELSE probe' = [probe EXCEPT !.phase = "leader_delay", !.base = base, !.jitter = jitter, !.delay = RestartMs(base, jitter)]
    /\ UNCHANGED <<progvars, window, timers, asyncs, last, clicks, delay_sum, attacks, reset_midway, ra_trace, fleet_size, network_type>>

NextPure ==
    \/ ProbeLookup
    \/ ProbeAttackDelay
    \/ ProbeLeaderDelay

SpecPure == InitPure /\ [][NextPure]_vars

-----------------------------------------------------------------------------
(* Claims *)

FaultyInstances == {i \in Nodes : instance_states[i] = "Faulty"}

\* C1: in every reachable state at most one of the three instance_states is
\* Faulty, whatever the interleaving of attack handlers and run-all timers.
C1_AtMostOneFaulty == Cardinality(FaultyInstances) <= 1

\* a security attack's trap has marked an instance Faulty and its rebuild is pending
C1_Witness == Cardinality(FaultyInstances) = 1 /\ last.op = "wasm_trap_timer" /\ faulty_instance \in FaultyInstances

\* every callback of every crash so far has run
AllCallbacksRun == ~CrashCallbackPending

\* C2: after N accepted crashes with computed restart delays d1..dN, no Reset in
\* between and every callback run, python_downtime_ms is d1 + ... + dN.
C2_DowntimeIsSumOfDelays == (AllCallbacksRun /\ ~reset_midway) => python_downtime_ms = delay_sum

\* three or more crashes, of both kinds, have all completed
C2_Witness == AllCallbacksRun /\ ~reset_midway /\ python_crashed >= 3 /\ delay_sum > 0 /\ python_downtime_ms = delay_sum /\ leader_id # 0 /\ last.op = "restart_timer"

DelayComputed == probe.phase \in {"attack_delay", "leader_delay"}

DelayAttempted == DelayComputed \/ probe.phase \in {"attack_panic", "leader_panic"}

\* C3: for every base b >= 0 and jitter j in -200..200 the restart delay is
\* max(500, b + j), so it is at least 500, in both handlers.
C3_DelayIsMaxOf500AndSum ==
    DelayAttempted =>
        /\ probe.base >= 0
        /\ probe.jitter \in -200..200
        /\ DelayComputed
        /\ probe.delay >= MinRestart
        /\ IF probe.base >= MinRestart - probe.jitter THEN probe.delay - probe.jitter = probe.base ELSE probe.delay = MinRestart

\* a delay computed from a base the jitter takes below 500, and one above it
C3_Witness == DelayComputed /\ probe.delay >= MinRestart /\ ((probe.base = 499 /\ probe.jitter = 1 /\ probe.delay = 500) \/ (probe.base = 0 /\ probe.jitter = -200 /\ probe.delay = 500))

ResetState ==
    /\ python_processed = 0 /\ python_crashed = 0 /\ python_downtime_ms = 0
    /\ wasm_processed = 0 /\ wasm_rejected = 0
    /\ \A i \in Nodes : instance_states[i] = "Healthy"
    /\ faulty_instance = None
    /\ \A w \in Nodes : python_workers[w]
    /\ leader_id = 0
    /\ python_active_worker = 0
    /\ python_logs = <<>> /\ wasm_logs = <<>>
    /\ ~is_running /\ ~running_all

\* C4: immediately after Reset the five counters are 0, every instance is
\* Healthy, faulty_instance is None, every worker is alive, leader_id and the
\* active worker are 0, both logs are empty, is_running and running_all are false.
C4_ResetRestoresInitialState == last.op = "reset_demo" => ResetState

\* Reset pressed after an attack, while an async call of that attack is still pending
C4_Witness == last.op = "reset_demo" /\ ResetState /\ clicks > 0 /\ asyncs # <<>>

\* C5: get_attack_config is total: each of the five known ids gives a record
\* that is not the default and has a non-empty name; any other string, the
\* empty one included, gives the default record named "Unknown Attack".
C5_ConfigTotal ==
    probe.phase # "input" =>
        IF probe.attack \in {"bufferOverflow", "dataExfil", "pathTraversal", "killLeader", "heartbeatTimeout"}
        THEN probe.config # AttackConfig("Unknown Attack", 1000, "trap", "unknown()") /\ probe.config.name # ""
        ELSE probe.config = AttackConfig("Unknown Attack", 1000, "trap", "unknown()") /\ probe.config.name = "Unknown Attack"

\* the empty id has been looked up
C5_Witness == probe.phase = "config" /\ probe.attack = "" /\ probe.config.name = "Unknown Attack"

\* C6: while is_running is true and running_all is false, trigger_attack and
\* trigger_leader_crash return at once: no signal changes and nothing is
\* scheduled; run_all_attacks does the same when is_running or running_all is true.
C6_BusyGuardsAreNoOps ==
    [][((is_running /\ ~running_all /\ last'.op \in {"trigger_attack", "trigger_leader_crash"}) \/ ((is_running \/ running_all) /\ last'.op = "run_all_attacks"))
          => UNCHANGED <<progvars, timers, asyncs>>]_vars

\* trigger_attack has just been called while another attack was running
C6_Witness == last = Step("trigger_attack", 0) /\ is_running /\ ~running_all /\ (timers # <<>> \/ asyncs # <<>>)

\* the order the spec gives for a run-all, with the handler of each attack
RunAllOrder == <<[attack |-> "bufferOverflow", leader |-> FALSE], [attack |-> "dataExfil", leader |-> FALSE], [attack |-> "pathTraversal", leader |-> FALSE], [attack |-> "killLeader", leader |-> TRUE], [attack |-> "heartbeatTimeout", leader |-> TRUE]>>

\* C7: one accepted run-all triggers the five attacks once each, in the order
\* bufferOverflow, dataExfil, pathTraversal (trigger_attack), killLeader,
\* heartbeatTimeout (trigger_leader_crash); no trigger is skipped by a busy
\* guard and each handler reads the selected_attack that was set for it.
C7_RunAllTriggersFiveInOrder ==
    /\ Len(ra_trace) <= 5
    /\ \A i \in DOMAIN ra_trace : ra_trace[i] = [attack |-> RunAllOrder[i].attack, read |-> RunAllOrder[i].attack, leader |-> RunAllOrder[i].leader, accepted |-> TRUE]
    /\ last.op = "run_all_final_timer" => Len(ra_trace) = 5

\* a run-all has run to its final timer
C7_Witness == last.op = "run_all_final_timer" /\ Len(ra_trace) = 5 /\ ~running_all /\ python_crashed = 5

\* C8: during a run-all, when each attack is triggered the respawn of the
\* previous Python crash is complete (python_restarting false, every worker
\* alive) and no instance is Faulty.
C8_RunAllTriggersFindSystemRestored ==
    [][Len(ra_trace') = Len(ra_trace) + 1 => (~python_restarting /\ (\A w \in Nodes : python_workers[w]) /\ (\A i \in Nodes : instance_states[i] = "Healthy"))]_vars

\* a later attack of a run-all has been triggered
C8_Witness == Len(ra_trace) >= 2 /\ running_all /\ last.op \in {"trigger_attack", "trigger_leader_crash"}

\* C9: in every reachable state at least one Python worker is alive.
C9_SomeWorkerAlive == \E w \in Nodes : python_workers[w]

\* two of the three workers are dead at once
C9_Witness == Cardinality({w \in Nodes : ~python_workers[w]}) = 2 /\ (\E w \in Nodes : python_workers[w])

\* C10: a leader crash started with leader_id = L ends, when its election
\* callback has run, with leader_id = (L + 1) mod 3: a leader other than L,
\* and 0 after 2.
C10_ElectionRotatesLeader == last.op = "election_done" => (leader_id = (last.n + 1) % 3 /\ leader_id # last.n /\ (last.n = 2 => leader_id = 0))

\* the election after a crash of leader 2 has wrapped round to 0
C10_Witness == last = Step("election_done", 2) /\ leader_id = 0

\* C11: when the leader-crash path sets the crashed old leader back to
\* Healthy, that instance is not the current leader: it comes back as a
\* follower, in every interleaving.
C11_RebuiltInstanceIsFollower == last.op = "rebuild_follower_timer" => leader_id # last.n

\* the old leader 0 has been rebuilt while instance 1 leads
C11_Witness == last = Step("rebuild_follower_timer", 0) /\ leader_id = 1 /\ instance_states[0] = "Healthy"

\* no timer and no async call is pending
Quiescent == timers = <<>> /\ asyncs = <<>>

ValidPool ==
    /\ \A i \in Nodes : instance_states[i] = "Healthy"
    /\ faulty_instance = None
    /\ \A w \in Nodes : python_workers[w]
    /\ ~python_restarting

\* C12: after any sequence of crashes, overlapping ones in a run-all included,
\* once every scheduled timer and async callback has run all three instances
\* are Healthy, faulty_instance is None, all three workers are alive and
\* python_restarting is false.
C12_QuiescentStateIsValid == Quiescent => ValidPool

\* a run-all with all its callbacks run
C12_Witness == Quiescent /\ ValidPool /\ python_crashed = 5 /\ wasm_rejected = 5 /\ last.op # "reset_demo"

IsPrefix(a, b) == Len(a) <= Len(b) /\ SubSeq(b, 1, Len(a)) = a

\* C13: both logs are append-only except on Reset: every step other than
\* Reset leaves the previous content of python_logs and of wasm_logs as a
\* prefix of the new content; only Reset empties them.
C13_LogsAppendOnly ==
    [][last'.op # "reset_demo" => (IsPrefix(python_logs, python_logs') /\ IsPrefix(wasm_logs, wasm_logs'))]_vars

\* an attack accepted when both logs already had content has appended to them
C13_Witness == last = Step("trigger_attack", 1) /\ Len(python_logs) > 4 /\ Len(wasm_logs) > 4

Counters == <<python_processed, python_crashed, python_downtime_ms, wasm_processed, wasm_rejected>>

\* C14: none of the five counters decreases in a step other than Reset, and
\* only Reset sets a counter to zero.
C14_CountersMonotonic ==
    [][last'.op # "reset_demo" =>
          \A c \in 1..5 : Counters'[c] >= Counters[c] /\ (Counters'[c] = 0 => Counters[c] = 0)]_vars

\* a second crash has added to counters that were already positive
C14_Witness == last.op = "restart_timer" /\ python_crashed >= 2 /\ python_downtime_ms >= 2 * MinRestart /\ python_processed = InitialProcessed /\ wasm_rejected >= 2

\* C15: leader_id is changed only by the leader-crash path: no step of a
\* security attack, of the sensor check or of any other action changes it.
C15_LeaderChangedOnlyByLeaderCrash ==
    [][leader_id' # leader_id => last'.op = "election_done"]_vars

\* C15 (amended): leader_id is changed only by the election callback of the
\* leader-crash path and by Reset, which sets it to 0.
C15_LeaderChangedOnlyByElectionOrReset ==
    [][leader_id' # leader_id => (last'.op = "election_done" \/ (last'.op = "reset_demo" /\ leader_id' = 0))]_vars

\* a security attack has run all its callbacks after the leader had moved to 1
C15_Witness == leader_id = 1 /\ last.op = "rebuild_done" /\ python_crashed >= 2 /\ wasm_rejected >= 2

\* C16: for every simulated crash, in the security-attack path and in the
\* leader-crash path, python_downtime_ms is increased by the computed delay
\* only when the respawn timer fires, never when the crash is triggered.
C16_DowntimeAccruesAtRespawnTimer ==
    [][python_downtime_ms' # python_downtime_ms => last'.op \in {"restart_timer", "leader_respawn_timer", "reset_demo"}]_vars

\* the restart timer of a security attack has added its delay
C16_Witness == last.op = "restart_timer" /\ python_downtime_ms = last.n /\ last.n >= MinRestart

\* the handler that the buttons and the run-all use for the probed attack has computed its base
BaseComputedByOwnHandler ==
    \/ probe.phase \in {"attack_delay", "attack_panic"} /\ probe.attack \in {"bufferOverflow", "dataExfil", "pathTraversal"}
    \/ probe.phase \in {"leader_delay", "leader_panic"} /\ probe.attack \in {"killLeader", "heartbeatTimeout"}

\* C17: with no cold-start measurement (pyodide_load_ms <= 0) the base restart
\* delay of an attack is the nominal restart_ms of its configuration record,
\* for each of the five ids, killLeader and heartbeatTimeout included; with a
\* measurement (> 0) the base is the measurement (in whole milliseconds).
C17_BaseIsNominalOrMeasured ==
    BaseComputedByOwnHandler =>
        IF probe.load.over \/ probe.load.whole > 0 \/ probe.load.frac > 0
        THEN probe.load.over \/ probe.base = probe.load.whole
        ELSE probe.base = (CASE probe.attack = "bufferOverflow" -> 1800
                             [] probe.attack = "dataExfil" -> 2100
                             [] probe.attack = "pathTraversal" -> 1500
                             [] probe.attack = "killLeader" -> 1500
                             [] probe.attack = "heartbeatTimeout" -> 2000)

\* killLeader without a measurement has taken its nominal 1500 ms as base
C17_Witness == probe.phase = "leader_delay" /\ probe.attack = "killLeader" /\ ~F64Positive(probe.load) /\ probe.base = 1500

-----------------------------------------------------------------------------
(* SpecFair: Spec with the scheduling of the browser: time passes, a due   *)
(* timer runs and a started async call settles.                            *)

Progress ==
    \/ \E i \in DOMAIN asyncs, o \in RunPythonOutcomes : AttackPythonDone(i, o)
    \/ RestartTimer
    \/ \E k \in FaultyDraws, lat \in Latencies : WasmTrapTimer(k, lat)
    \/ \E i \in DOMAIN asyncs : RebuildDone(i)
    \/ LeaderRespawnTimer
    \/ \E i \in DOMAIN asyncs : ElectionDone(i)
    \/ RebuildFollowerTimer
    \/ RunAllOuterTimer
    \/ \E k \in JitterDraws, lat \in Latencies : RunAllInnerTimer(k, lat)
    \/ RunAllFinalTimer
    \/ \E i \in DOMAIN asyncs, o \in RunPythonOutcomes : SensorPythonDone(i, o)
    \/ PollPyodide
    \/ Advance

SpecFair == Spec /\ WF_vars(Progress)

-----------------------------------------------------------------------------

Pending == timers \o asyncs

\* a pending callback without its remaining time
Signature(t) == [t EXCEPT !.rem = 0]

SignatureCount(q, sig) == Cardinality({i \in DOMAIN q : Signature(q[i]) = sig})

\* the steps that run the callback of a pending task of this kind
CallbackOps(kind) ==
    CASE kind = "poll" -> {"poll"}
      [] kind = "attack_python" -> {"attack_python_done"}
      [] kind = "restart" -> {"restart_timer"}
      [] kind = "wasm_trap" -> {"wasm_trap_timer"}
      [] kind = "rebuild" -> {"rebuild_done"}
      [] kind = "leader_respawn" -> {"leader_respawn_timer"}
      [] kind = "election" -> {"election_done"}
      [] kind = "rebuild_follower" -> {"rebuild_follower_timer"}
      [] kind = "run_all_outer" -> {"run_all_outer_timer"}
      [] kind = "run_all_inner" -> {"trigger_attack", "trigger_leader_crash"}
      [] kind = "run_all_final" -> {"run_all_final_timer"}
      [] kind = "sensor_python" -> {"sensor_python_done"}

\* every pending callback is still pending after the step, but for one that was due and is run by the step
NoCallbackCancelled ==
    [][\A j \in DOMAIN Pending :
          LET sig == Signature(Pending[j])
              before == SignatureCount(Pending, sig)
              after == SignatureCount(timers' \o asyncs', sig)
          IN  \/ after >= before
              \/ /\ after = before - 1
                 /\ last'.op \in CallbackOps(sig.kind)
                 /\ \E i \in DOMAIN Pending : Signature(Pending[i]) = sig /\ Pending[i].rem = 0]_vars

\* C18: once a timer or async call has been scheduled its callback always
\* runs to completion exactly once: no action, Reset included, cancels or
\* removes a pending callback, and whenever callbacks are pending a state
\* follows in which all of them have run.
C18_CallbacksAlwaysRunOnce == NoCallbackCancelled /\ (~Quiescent ~> Quiescent)

\* Reset pressed while callbacks are pending leaves them pending
C18_Witness == last.op = "reset_demo" /\ asyncs # <<>> /\ ResetState

KindCount(q, kind) == Cardinality({i \in DOMAIN q : q[i].kind = kind})

\* what a failed runPython of the sensor check does in the step that handles it
SensorFailureHandled ==
    /\ Len(python_logs') = Len(python_logs) + 1
    /\ IsPrefix(python_logs, python_logs')
    /\ python_logs'[Len(python_logs')].level = "error"
    /\ KindCount(asyncs', "sensor_python") = KindCount(asyncs, "sensor_python") - 1
    /\ ~sensor_running'

\* what a failed runPython of a security attack does in the step that handles it
AttackFailureHandled ==
    /\ Len(python_logs') = Len(python_logs) + 3
    /\ IsPrefix(python_logs, python_logs')
    /\ python_logs'[Len(python_logs) + 1].level = "error"
    /\ python_logs'[Len(python_logs) + 2].level = "error"
    /\ KindCount(asyncs', "attack_python") = KindCount(asyncs, "attack_python") - 1
    /\ KindCount(timers', "restart") = KindCount(timers, "restart") + 1

\* C19: when runPython fails, in the sensor check and in the security attack
\* alike, the handler appends error-level entries to the Python log, does not
\* call the script again, and still releases its busy flag: sensor_running at
\* once, is_running when the respawn timer has run.
C19_RunPythonFailureHandled ==
    /\ [][(last' = Step("sensor_python_done", 0) => SensorFailureHandled)
            /\ (last' = Step("attack_python_done", 0) => AttackFailureHandled)
            /\ ((last'.op = "restart_timer" /\ ~running_all) => ~is_running')]_vars
    /\ (last = Step("attack_python_done", 0)) ~> ~is_running

\* the respawn timer of an attack whose script failed has released is_running
C19_Witness == last.op = "restart_timer" /\ ~is_running /\ ~running_all /\ python_crashed = 1 /\ Len(python_logs) = 9 /\ python_logs[5].level = "error"

\* variant: the panel charges every rebuild its delay
WasmStatsViewChargesRebuilds ==
    [processed |-> wasm_processed, voted_out |-> wasm_rejected, downtime_ms |-> wasm_rejected * RebuildDelay]

\* the WASM Stats panel: two signals and the literal "0ms"; the component
\* keeps no WASM downtime signal
WasmStatsView ==
    [processed |-> wasm_processed, voted_out |-> wasm_rejected, downtime_ms |-> 0]

\* C20: the WASM-side downtime is 0 in every reachable state: whatever
\* attacks have run, in any number and order, the WASM panel shows 0 ms.
C20_WasmDowntimeAlwaysZero == WasmStatsView.downtime_ms = 0

\* several attacks have run to the end: Python has accrued downtime, instances were voted out and rebuilt
C20_Witness ==
    /\ WasmStatsView.voted_out >= 2
    /\ WasmStatsView.downtime_ms = 0
    /\ python_downtime_ms > 0
    /\ python_crashed >= 2
    /\ instance_states = AllHealthy
    /\ timers = <<>> /\ asyncs = <<>>
    /\ last.op \in {"restart_timer", "rebuild_done", "rebuild_follower_timer", "leader_respawn_timer"}

-----------------------------------------------------------------------------
(* SpecOta: the OTA update calculator (proof/ota_simulator.rs).  The code   *)
(* computes in f64; the model computes the same expressions exactly, in     *)
(* scaled integers: sizes in 1/100 MB, prices in 1/1000 USD, times in ms,   *)
(* money as whole USD and a fraction in 1/100000 USD.                       *)

NetworkTypes == {"Ethernet", "Cellular", "Satellite"}

\* NetworkType::speed_mbps
speed_mbps(net) ==
    CASE net = "Ethernet" -> 100
      [] net = "Cellular" -> 10
      [] net = "Satellite" -> 1

\* NetworkType::cost_per_mb, as [whole USD, 1/1000 USD]
cost_per_mb(net) ==
    CASE net = "Ethernet" -> [whole |-> 0, milli |-> 1]
      [] net = "Cellular" -> [whole |-> 0, milli |-> 100]
      [] net = "Satellite" -> [whole |-> 10, milli |-> 0]

\* 50 MB, in 1/100 MB
DOCKER_UPDATE_SIZE_MB == 5000

\* 0.05 MB, in 1/100 MB
WASM_UPDATE_SIZE_MB == 5

\* variant: megabytes taken for megabits
calc_download_time_secs_no_bits(size_mb, speed_mbps_) == (size_mb * 10) \div speed_mbps_

\* size_mb * 8.0 / speed_mbps, in ms
calc_download_time_secs(size_mb, speed_mbps_) == (size_mb * 8 * 10) \div speed_mbps_

Usd(whole, frac) == [whole |-> whole, frac |-> frac]

\* a - b, the fraction kept in 0..99999
UsdSub(a, b) ==
    IF a.frac >= b.frac
    THEN Usd(a.whole - b.whole, a.frac - b.frac)
    ELSE Usd(a.whole - b.whole - 1, a.frac - b.frac + 100000)

UsdTimes(a, n) == Usd(a.whole * n + ((a.frac * n) \div 100000), (a.frac * n) % 100000)

UsdLeq(a, b) == a.whole < b.whole \/ (a.whole = b.whole /\ a.frac <= b.frac)

\* bandwidth (1/100 MB) times a price per MB
UsdOfBandwidth(bw, price) ==
    LET mb == bw \div 100
        cmb == bw % 100
        fracs == ((mb * price.milli) % 1000) * 100 + cmb * price.whole * 1000 + cmb * price.milli
    IN  Usd(mb * price.whole + ((mb * price.milli) \div 1000) + (fracs \div 100000), fracs % 100000)

docker_time_per_device == calc_download_time_secs(DOCKER_UPDATE_SIZE_MB, speed_mbps(network_type))

wasm_time_per_device == calc_download_time_secs(WASM_UPDATE_SIZE_MB, speed_mbps(network_type))

docker_total_bandwidth_mb == DOCKER_UPDATE_SIZE_MB * fleet_size

wasm_total_bandwidth_mb == WASM_UPDATE_SIZE_MB * fleet_size

docker_cost == UsdOfBandwidth(docker_total_bandwidth_mb, cost_per_mb(network_type))

wasm_cost == UsdOfBandwidth(wasm_total_bandwidth_mb, cost_per_mb(network_type))

\* 12 updates a year
yearly_savings == UsdTimes(UsdSub(docker_cost, wasm_cost), 12)

\* the range input: min, max, step
SliderMin == 100

SliderMax == 10000

SliderStep == 100

\* what the input event carries: a slider position, or text that is no u32
FleetInputs == {v \in SliderMin..SliderMax : v % SliderStep = 0} \cup {None}

SelectValues == {"ethernet", "cellular", "satellite"}

InitOta ==
    /\ Mounted
    /\ window.ready = FALSE
    /\ probe = IdleProbe

\* on:input of the fleet slider: parse::<u32>().unwrap_or(1000)
SetFleetSize ==
    \E v \in FleetInputs :
        /\ fleet_size' = IF v = None THEN 1000 ELSE v
        /\ last' = Step("set_fleet_size", 0)
        /\ UNCHANGED <<progvars, window, timers, asyncs, clicks, delay_sum, attacks, reset_midway, ra_trace, probe, network_type>>

\* on:change of the network select
SetNetworkType ==
    \E val \in SelectValues :
        /\ network_type' = CASE val = "ethernet" -> "Ethernet"
                             [] val = "satellite" -> "Satellite"
                             [] OTHER -> "Cellular"
        /\ last' = Step("set_network_type", 0)
        /\ UNCHANGED <<progvars, window, timers, asyncs, clicks, delay_sum, attacks, reset_midway, ra_trace, probe, fleet_size>>

NextOta ==
    \/ SetFleetSize
    \/ SetNetworkType

SpecOta == InitOta /\ [][NextOta]_vars

\* the outputs are the stated formulas of the two inputs, with nothing lost to rounding
OtaFormulas ==
    /\ docker_time_per_device * speed_mbps(network_type) = 50 * 8 * 1000
    /\ wasm_time_per_device * speed_mbps(network_type) * 100 = 5 * 8 * 1000
    /\ docker_total_bandwidth_mb = 5000 * fleet_size
    /\ wasm_total_bandwidth_mb = 5 * fleet_size
    /\ LET price == cost_per_mb(network_type)
       IN  wasm_cost.whole * 100000 + wasm_cost.frac = 5 * fleet_size * (price.whole * 1000 + price.milli)
    /\ docker_cost = UsdTimes(wasm_cost, 1000)
    /\ yearly_savings = UsdTimes(wasm_cost, 999 * 12)
    /\ yearly_savings.frac \in 0..99999

\* C21: the OTA calculator is a function of fleet size and network profile
\* alone: download time = size * 8 / speed, cost = size * fleet * price,
\* yearly savings = (docker cost - wasm cost) * 12.  With 1000 devices on
\* cellular it gives 40 s and 0.04 s per device and 59,940 a year; savings are
\* never negative and never fall when the fleet grows on the same profile.
C21_OtaCalculator ==
    /\ [](OtaFormulas
           /\ (fleet_size = 1000 /\ network_type = "Cellular"
                 => /\ docker_time_per_device = 40000
                    /\ wasm_time_per_device = 40
                    /\ docker_cost = Usd(5000, 0)
                    /\ wasm_cost = Usd(5, 0)
                    /\ yearly_savings = Usd(59940, 0))
           /\ UsdLeq(Usd(0, 0), yearly_savings))
    /\ [][(network_type' = network_type /\ fleet_size' >= fleet_size) => UsdLeq(yearly_savings, yearly_savings')]_vars

\* the user came back to 1000 devices on cellular from another profile
C21_Witness == fleet_size = 1000 /\ network_type = "Cellular" /\ last.op = "set_network_type" /\ yearly_savings = Usd(59940, 0)

\* the final timer of a run-all is still pending
RunAllInProgress == \E i \in DOMAIN timers : timers[i].kind = "run_all_final"

\* C22: from an accepted run-all until its final timer fires, is_running and
\* running_all are both true in every state, whatever callbacks of the five
\* attacks run in between; the step in which the final timer fires makes both
\* false.
C22_RunAllHoldsBothFlags ==
    /\ [](RunAllInProgress => is_running /\ running_all)
    /\ [][/\ (last' = Step("run_all_attacks", 1) /\ last # last') => RunAllInProgress'
          /\ (RunAllInProgress /\ ~RunAllInProgress') => (last'.op = "run_all_final_timer" /\ ~is_running' /\ ~running_all')]_vars

\* a respawn timer of one of the five attacks has just run, the run-all goes on
C22_Witness == RunAllInProgress /\ last.op = "restart_timer" /\ is_running /\ running_all /\ python_crashed >= 3

\* a single attack, of either kind, was accepted and has not released the buttons yet
SingleAttackRunning == is_running /\ ~running_all

\* C23: every accepted single attack (security or leader crash, outside a
\* run-all) is followed by a state with is_running false, whether the script
\* call succeeds or fails, given that timers fire and async calls settle; so
\* the attack buttons are never disabled for ever.
C23_SingleAttackReleasesButtons == SingleAttackRunning ~> ~AttackButtonDisabled

\* two single attacks were accepted one after the other and both have released the buttons
C23_Witness == ~AttackButtonDisabled /\ ~running_all /\ clicks = 2 /\ python_crashed = 2 /\ last.op \in {"restart_timer", "leader_respawn_timer"}

\* the operations a user starts
UserOps == {"trigger_attack", "trigger_leader_crash", "run_all_attacks", "run_sensor_comparison", "reset_demo"}

\* C24: once Reset has been performed and no further user action is taken,
\* the state stays the reset state: no callback of an earlier attack or sensor
\* check is left that appends log entries, bumps a counter or marks an
\* instance or a worker as failed.
C24_ResetStateIsStable == [][(ResetState /\ last'.op \notin UserOps) => ResetState']_vars

\* after Reset, the script of an earlier sensor check has written to the emptied Python log
C24_Witness == last.op = "sensor_python_done" /\ wasm_logs = <<>> /\ python_logs # <<>> /\ python_crashed = 0

\* C25: python_processed and wasm_processed are equal in every reachable
\* state, both 0 or both 5, and python_logs is empty exactly when wasm_logs is
\* empty.
C25_TerminalsInitialisedTogether ==
    /\ python_processed = wasm_processed
    /\ python_processed \in {0, InitialProcessed}
    /\ (python_logs = <<>>) <=> (wasm_logs = <<>>)

\* an attack has initialised one terminal and one counter only
C25_Witness == python_processed # wasm_processed /\ last.op \in {"trigger_attack", "trigger_leader_crash"} /\ last.n = 1

\* Pyodide took 21 s to load and was ready when the Demo was mounted
SlowWindow == [ready |-> TRUE, load |-> F64(21000, 0, FALSE)]

InitSlowLoad == MountedWindow({SlowWindow}) /\ probe = IdleProbe

SpecSlowLoad == InitSlowLoad /\ [][Next]_vars

\* C26: whenever is_running is false the Python pool is fully restored:
\* python_restarting is false and all three workers are alive.
C26_IdleMeansPoolRestored == ~is_running => (~python_restarting /\ python_workers = AllAlive)

\* the final timer of a run-all has released the buttons while a worker is still down
C26_Witness == ~is_running /\ python_restarting /\ python_workers # AllAlive /\ last.op = "run_all_final_timer"

\* C27: python_restarting is true exactly when at least one Python worker is
\* marked dead: the RESPAWNING status and the worker array agree in every
\* reachable state.
C27_RestartingIffWorkerDead == python_restarting <=> (\E w \in Nodes : ~python_workers[w])

\* overlapping crashes of a run-all: two workers are down and the status shows it
C27_Witness == python_restarting /\ Cardinality({w \in Nodes : ~python_workers[w]}) = 2 /\ running_all /\ python_crashed >= 2

\* C28: faulty_instance and instance_states always agree: faulty_instance is
\* Some(i) exactly when instance i is the one marked Faulty, and None exactly
\* when all three instances are Healthy.
C28_FaultyInstanceAgrees ==
    /\ \A i \in Nodes : (faulty_instance = i) <=> (FaultyInstances = {i})
    /\ (faulty_instance = None) <=> (FaultyInstances = {})

\* an instance is still marked Faulty while faulty_instance is None
C28_Witness == faulty_instance = None /\ FaultyInstances # {}

\* C29: every triggered attack, of either kind, increments python_crashed by
\* one and wasm_rejected by one: after k attacks since the last Reset, once
\* all their callbacks have run, python_crashed = wasm_rejected = k (5 after a
\* complete run-all from a reset state).
C29_EachAttackCountsOnce == Quiescent => (python_crashed = attacks /\ wasm_rejected = attacks)

\* nothing is pending, no attack was accepted since the last Reset, and one instance counts as voted out
C29_Witness == Quiescent /\ attacks = 0 /\ python_crashed = 0 /\ wasm_rejected = 1

\* the failover for the worker w that the attack captured when it was triggered
FailoverOf(w) ==
    /\ python_workers' = [x \in Nodes |-> x # w]
    /\ python_active_worker' = (w + 1) % 3
    /\ python_workers'[python_active_worker']
    /\ python_restarting'

\* C30: in a security attack the Python failover is the same whether the
\* script call succeeds or fails: when the call completes, with the active
\* worker w captured at trigger time, exactly worker w is marked dead, the
\* active worker becomes (w + 1) mod 3 and is alive, and python_restarting
\* becomes true; the active worker index always stays in 0..2.
C30_FailoverSameOnOkAndErr ==
    /\ [](python_active_worker \in 0..2)
    /\ [][/\ (last' = Step("trigger_attack", 1) /\ Len(asyncs') = Len(asyncs) + 1)
               => (asyncs'[Len(asyncs')].kind = "attack_python" /\ asyncs'[Len(asyncs')].n = python_active_worker)
          /\ (last'.op = "attack_python_done" /\ Len(asyncs') = Len(asyncs) - 1)
               => \E i \in DOMAIN asyncs :
                     /\ asyncs[i].kind = "attack_python"
                     /\ asyncs' = RemoveAt(asyncs, i)
                     /\ FailoverOf(asyncs[i].n)]_vars

\* the script of an attack on worker 2 has failed: worker 2 alone is down and worker 0 has taken over
C30_Witness == last = Step("attack_python_done", 0) /\ python_workers = [x \in Nodes |-> x # 2] /\ python_active_worker = 0 /\ python_restarting

====
